---------------------------- MODULE Spec2Model ----------------------------
(***************************************************************************)
(* Model of the Unity-Python UDP bridge                                    *)
(* (src/Unity-Python Communication Test/g1_bridge_server.py).              *)
(*                                                                         *)
(* Threads of the program:                                                 *)
(*   - the main thread: start() arms the listener, sleeps until Ctrl+C,    *)
(*     then runs stop() and returns, which ends the process;               *)
(*   - the listener thread: listen(), a daemon thread;                     *)
(*   - one handler thread per dispatched command: process_command().       *)
(*     Handler threads are created by the daemon listener thread and       *)
(*     inherit its daemon flag, so they die with the process.              *)
(***************************************************************************)
EXTENDS Naturals, Sequences, FiniteSets, TLC

(***************************************************************************)
(* Bounds of the model.                                                    *)
(***************************************************************************)
\* Number of datagrams the peer side puts on the network in one run.
MaxDatagrams == 2

(***************************************************************************)
(* Program constants.                                                      *)
(***************************************************************************)
None == <<>>

\* The configured peer host (sys.argv[2]) and a host that is not the peer.
pc_ip == "192.168.123.162"
other_ip == "192.168.123.77"

\* Source endpoints a datagram can come from: (host, port) as recvfrom
\* returns them.  The peer's source port is ephemeral: two values.
PeerAddresses == { <<pc_ip, 50001>>, <<pc_ip, 50002>> }
OtherAddresses == { <<other_ip, 50001>> }

(***************************************************************************)
(* Datagram payloads.  A payload is the text of one datagram, kept as the  *)
(* pieces a JSON parser looks at: whether the bytes are valid UTF-8, the   *)
(* opening bracket, the key/value pairs in textual order, the closing      *)
(* bracket ("" when the text is truncated).                                *)
(***************************************************************************)
Text(open, pairs, close) ==
    [utf8 |-> TRUE, open |-> open, pairs |-> pairs, close |-> close]

ObjText(pairs) == Text("{", pairs, "}")

PingText == ObjText(<< <<"command", "ping">> >>)
TruncatedText == Text("{", << <<"command", "ping">> >>, "")

Payloads ==
    { ObjText(<< <<"command", "ping">> >>),
      ObjText(<< <<"command", "test_echo">>, <<"data", "x">> >>),
      ObjText(<< <<"command", "test_echo">>, <<"extra", "y">> >>),
      ObjText(<< <<"command", "get_status">> >>),
      ObjText(<< <<"command", "shake_hand">> >>),
      ObjText(<< <<"command", "dance">> >>),
      ObjText(<< <<"command", "Ping">> >>),
      ObjText(<< <<"command", "ping">>, <<"command", "dance">> >>),
      ObjText(<< <<"data", "x">> >>),
      Text("[", << >>, "]"),
      Text("{", << <<"command", "ping">> >>, ""),
      [utf8 |-> FALSE, open |-> "{", pairs |-> << >>, close |-> "}"] }

\* The datagrams of a run: any payload from the peer's host, and from the
\* other host (whose payload listen() never looks at) one well-formed and one
\* malformed payload.
Datagrams ==
    [data : Payloads, address : PeerAddresses]
        \cup [data : {PingText, TruncatedText}, address : OtherAddresses]

(***************************************************************************)
(* json.loads / json.dumps / dict.get                                      *)
(***************************************************************************)
Keys(pairs) == { pairs[i][1] : i \in DOMAIN pairs }

LastIndex(pairs, k) ==
    CHOOSE i \in DOMAIN pairs :
        /\ pairs[i][1] = k
        /\ \A j \in DOMAIN pairs : pairs[j][1] = k => j <= i

\* The mapping a JSON object text denotes: a repeated key keeps its last value.
DictOf(pairs) == [k \in Keys(pairs) |-> pairs[LastIndex(pairs, k)][2]]

\* data.decode('utf-8') followed by json.loads(message): the value, or the
\* exception raised.
JsonLoads(text) ==
    IF ~text.utf8 THEN [ok |-> FALSE, error |-> "UnicodeDecodeError"]
    ELSE IF text.open = "{" /\ text.close = "}"
        THEN [ok |-> TRUE, type |-> "dict", val |-> DictOf(text.pairs)]
    ELSE IF text.open = "[" /\ text.close = "]"
        THEN [ok |-> TRUE, type |-> "list", val |-> text.pairs]
    ELSE [ok |-> FALSE, error |-> "JSONDecodeError"]

\* The order json.dumps writes the keys of the response dicts in.
KeyOrder ==
    << "status", "command", "echo_data", "robot_status", "connection",
       "message", "timestamp", "controller_ip", "robot_ip" >>

PairsOf(d) ==
    LET Test(k) == k \in DOMAIN d
        ks == SelectSeq(KeyOrder, Test)
    IN  [i \in 1..Len(ks) |-> <<ks[i], d[ks[i]]>>]

\* json.dumps(message_dict)
JsonDumps(d) == ObjText(PairsOf(d))

\* command_dict.get(key, default)
DictGet(d, key, default) == IF key \in DOMAIN d THEN d[key] ELSE default

(***************************************************************************)
(* State.                                                                  *)
(***************************************************************************)
VARIABLES
    running,        \* self.running
    sockOpen,       \* self.sock is bound and not yet closed
    unity_address,  \* self.unity_address: None or the learned (host, port)
    mainPc,         \* main thread: "serving", "closing", "stopped", "exited"
    loopPc,         \* listener thread: "start", "check", "recv", "done"
    last,           \* listen()'s locals (data, address) in the iteration that
                    \* received a datagram, None otherwise
    nrecv,          \* datagrams recvfrom has returned so far
    log,            \* what listen() has printed about the datagrams it handled
    tasks           \* the handler threads started so far, in start order; each
                    \* with the datagrams its sendto calls put on the network

\* The state of a run of g1_comprehensive_test.py, a program of its own: a
\* run of the bridge leaves it idle, a run of the test leaves the bridge as
\* constructed.
VARIABLES
    tPc,            \* where the test is: "idle", "main", "constructed", "try",
                    \* "except", "main_returned", "run_returned", "raised",
                    \* "usage_exit"
    tIdx,           \* the next entry of the body in execution (try or except)
    tLog            \* the device calls made, with their outcome, and the
                    \* result lines printed, in order

testVars == << tPc, tIdx, tLog >>

bridgeVars == << running, sockOpen, unity_address, mainPc, loopPc, last, nrecv,
                 log, tasks >>

vars == << running, sockOpen, unity_address, mainPc, loopPc, last, nrecv,
           log, tasks, tPc, tIdx, tLog >>

\* UnityPythonBridge.__init__ followed by start() up to listener_thread.start()
BridgeInit ==
    /\ running = FALSE
    /\ sockOpen = TRUE
    /\ unity_address = None
    /\ mainPc = "serving"
    /\ loopPc = "start"
    /\ last = None
    /\ nrecv = 0
    /\ log = << >>
    /\ tasks = << >>

Init ==
    /\ BridgeInit
    /\ tPc = "idle" /\ tIdx = 0 /\ tLog = << >>

\* The process is alive: daemon threads run only until the main thread ends.
Alive == mainPc # "exited"

(***************************************************************************)
(* process_command: the handler thread.                                    *)
(***************************************************************************)
\* CmdType with an empty default.
CmdTypeEmptyDefault(command_dict) == DictGet(command_dict, "command", "")

\* cmd_type = command_dict.get('command', 'unknown')
CmdType(command_dict) == DictGet(command_dict, "command", "unknown")

PingResponse ==
    [ status |-> "success", command |-> "ping",
      message |-> "pong from robot controller", timestamp |-> "<now>",
      controller_ip |-> "192.168.123.164", robot_ip |-> "192.168.123.161" ]

\* EchoResponse reading data without the '' default (None, sent as null).
EchoResponseNoDefault(command_dict) ==
    [ status |-> "success", command |-> "test_echo",
      echo_data |-> DictGet(command_dict, "data", "null"),
      message |-> "Echoed from robot controller: "
                      \o DictGet(command_dict, "data", "None") ]

EchoResponse(command_dict) ==
    [ status |-> "success", command |-> "test_echo",
      echo_data |-> DictGet(command_dict, "data", ""),
      message |-> "Echoed from robot controller: "
                      \o DictGet(command_dict, "data", "") ]

ShakeAcknowledged ==
    [ status |-> "acknowledged", command |-> "shake_hand",
      message |-> "Handshake command received, preparing robot" ]

ShakeInProgress ==
    [ status |-> "in_progress", command |-> "shake_hand",
      message |-> "Robot hand extended, waiting for player" ]

ShakeCompleted ==
    [ status |-> "completed", command |-> "shake_hand",
      message |-> "Handshake completed, robot returning to idle" ]

StatusResponse ==
    [ status |-> "success", command |-> "get_status", robot_status |-> "idle",
      connection |-> "active", controller_ip |-> "192.168.123.164",
      robot_ip |-> "192.168.123.161", message |-> "Robot controller is ready" ]

\* UnknownResponse that does not name the command it answers.
UnknownResponseAnonymous(cmd_type) ==
    [ status |-> "error", command |-> "unknown",
      message |-> "Unknown command" ]

UnknownResponse(cmd_type) ==
    [ status |-> "error", command |-> cmd_type,
      message |-> "Unknown command: " \o cmd_type ]

\* Message without the get_status branch: the request falls through to the
\* final else.
MessageWithoutStatus(command_dict, pc) ==
    LET cmd_type == CmdType(command_dict) IN
    IF cmd_type = "ping" THEN PingResponse
    ELSE IF cmd_type = "test_echo" THEN EchoResponse(command_dict)
    ELSE IF cmd_type = "shake_hand" THEN
        IF pc = "run" THEN ShakeAcknowledged
        ELSE IF pc = "extending" THEN ShakeInProgress
        ELSE ShakeCompleted
    ELSE UnknownResponse(cmd_type)

\* The message process_command passes to send_to_unity at control point pc.
Message(command_dict, pc) ==
    LET cmd_type == CmdType(command_dict) IN
    IF cmd_type = "ping" THEN PingResponse
    ELSE IF cmd_type = "test_echo" THEN EchoResponse(command_dict)
    ELSE IF cmd_type = "shake_hand" THEN
        IF pc = "run" THEN ShakeAcknowledged
        ELSE IF pc = "extending" THEN ShakeInProgress
        ELSE ShakeCompleted
    ELSE IF cmd_type = "get_status" THEN StatusResponse
    ELSE UnknownResponse(cmd_type)

\* NextPc with the wait-and-report step after the acknowledgement left out.
NextPcSkipsInProgress(cmd_type, pc) ==
    IF cmd_type = "shake_hand" THEN
        IF pc = "run" THEN "awaiting" ELSE "done"
    ELSE "done"

\* NextPc with every branch falling through the three sends of shake_hand.
NextPcAlwaysPhased(cmd_type, pc) ==
    IF pc = "run" THEN "extending"
    ELSE IF pc = "extending" THEN "awaiting"
    ELSE "done"

\* Where process_command is after the send made at control point pc:
\* shake_hand sleeps between its three sends, every other branch returns.
NextPc(cmd_type, pc) ==
    IF cmd_type = "shake_hand" THEN
        IF pc = "run" THEN "extending"
        ELSE IF pc = "extending" THEN "awaiting"
        ELSE "done"
    ELSE "done"

\* SendSucceeds with a sendto that goes through on a closed socket.
SendSucceedsOnClosedSocket(address, open) == address # None

\* send_to_unity returns True: the address is set and sendto does not raise.
SendSucceeds(address, open) == address # None /\ open

\* threading.Thread(target=self.process_command, args=(command_dict,)).start()
\* ThreadStart replaced by a plain call: process_command has run to its end
\* when listen() gets control back.
ThreadStartInline(ts, command) ==
    Append(ts, [cmd |-> command, pc |-> "done", out |-> << >>, failed |-> 0])

\* A handler thread holds its argument (cmd) and where it is (pc); with it are
\* kept the datagrams its sendto calls have put on the network, in order
\* (out), and how many of its send_to_unity calls returned False (failed).
ThreadStart(ts, command) ==
    Append(ts, [cmd |-> command, pc |-> "run", out |-> << >>, failed |-> 0])

Running(i) == tasks[i].pc \in {"run", "extending", "awaiting"}

\* HandlerSend whose failed send forgets the peer, for it to be learned anew.
HandlerSendForgetsPeer(i) ==
    /\ Alive
    /\ Running(i)
    /\ tasks[i].cmd.type = "dict"
    /\ LET t == tasks[i]
           msg == Message(t.cmd.val, t.pc)
           ok == SendSucceeds(unity_address, sockOpen)
       IN  /\ tasks' = [tasks EXCEPT
                            ![i].pc = NextPc(CmdType(t.cmd.val), t.pc),
                            ![i].out = IF ok
                                       THEN Append(@, [to |-> unity_address,
                                                       data |-> JsonDumps(msg)])
                                       ELSE @,
                            ![i].failed = IF ok THEN @ ELSE @ + 1]
           /\ unity_address' = IF ok THEN unity_address ELSE None
    /\ UNCHANGED << running, sockOpen, mainPc, loopPc, last, nrecv, log >>
    /\ UNCHANGED testVars

\* One send of handler i: the send that ends the control point it is at.
HandlerSend(i) ==
    /\ Alive
    /\ Running(i)
    /\ tasks[i].cmd.type = "dict"
    /\ LET t == tasks[i]
           msg == Message(t.cmd.val, t.pc)
           ok == SendSucceeds(unity_address, sockOpen)
       IN  tasks' = [tasks EXCEPT
                        ![i].pc = NextPc(CmdType(t.cmd.val), t.pc),
                        ![i].out = IF ok
                                   THEN Append(@, [to |-> unity_address,
                                                   data |-> JsonDumps(msg)])
                                   ELSE @,
                        ![i].failed = IF ok THEN @ ELSE @ + 1]
    /\ UNCHANGED << running, sockOpen, unity_address, mainPc, loopPc, last,
                    nrecv, log >>
    /\ UNCHANGED testVars

\* command_dict.get raises AttributeError when the JSON value is no object:
\* nothing catches it in the handler thread, which ends.
HandlerCrash(i) ==
    /\ Alive
    /\ tasks[i].pc = "run"
    /\ tasks[i].cmd.type # "dict"
    /\ tasks' = [tasks EXCEPT ![i].pc = "crashed"]
    /\ UNCHANGED << running, sockOpen, unity_address, mainPc, loopPc, last,
                    nrecv, log >>
    /\ UNCHANGED testVars

(***************************************************************************)
(* listen: the listener thread.                                            *)
(***************************************************************************)
\* self.running = True
ListenStart ==
    /\ Alive
    /\ loopPc = "start"
    /\ running' = TRUE
    /\ loopPc' = "check"
    /\ UNCHANGED << sockOpen, unity_address, mainPc, last, nrecv, log, tasks >>
    /\ UNCHANGED testVars

\* while self.running: (the locals of the iteration that ended are dead)
LoopCheck ==
    /\ Alive
    /\ loopPc = "check"
    /\ loopPc' = IF running THEN "recv" ELSE "done"
    /\ last' = None
    /\ UNCHANGED << running, sockOpen, unity_address, mainPc, nrecv, log,
                    tasks >>
    /\ UNCHANGED testVars

\* AfterExcept when the exception ends listen().
AfterExceptLoopEnds == "done"

\* Where listen() goes on after an except clause has handled what the try
\* block raised: to the next test of while self.running.
AfterExcept == "check"

\* recvfrom raises socket.timeout after 0.1 s: continue
RecvTimeout ==
    /\ Alive
    /\ loopPc = "recv"
    /\ sockOpen
    /\ loopPc' = "check"
    /\ UNCHANGED << running, sockOpen, unity_address, mainPc, last, nrecv, log,
                    tasks >>
    /\ UNCHANGED testVars

\* recvfrom raises OSError on the closed socket: except Exception
RecvError ==
    /\ Alive
    /\ loopPc = "recv"
    /\ ~sockOpen
    /\ loopPc' = AfterExcept
    /\ UNCHANGED << running, sockOpen, unity_address, mainPc, last, nrecv, log,
                    tasks >>
    /\ UNCHANGED testVars

\* IsExpected with the host test lost.
IsExpectedAnyHost(address) == TRUE

\* Learn that overwrites on every receipt.
LearnOverwrites(current, address) == address

\* Learn with its test inverted: the address is assigned when one is set.
LearnInverted(current, address) == IF current # None THEN address ELSE current

\* if address[0] == self.pc_ip
IsExpected(address) == address[1] = pc_ip

\* if self.unity_address is None: self.unity_address = address
Learn(current, address) == IF current = None THEN address ELSE current

\* Connected printing its two lines in every iteration, not in the first only.
ConnectedEveryTime(current) == << "connected" >>

\* What listen() prints when it learns the address.
Connected(current) == IF current = None THEN << "connected" >> ELSE << >>

\* One iteration of the loop in which recvfrom returns datagram d, from the
\* return of recvfrom to the end of the try block.  Every such step starts
\* with
\*     data, address = self.sock.recvfrom(4096)
Received(d) ==
    /\ Alive
    /\ loopPc = "recv"
    /\ sockOpen
    /\ nrecv < MaxDatagrams
    /\ last' = d
    /\ nrecv' = nrecv + 1

\* else: print "Received message from unexpected IP"
ReceiveUnexpected ==
    \E d \in Datagrams :
        /\ Received(d)
        /\ ~IsExpected(d.address)
        /\ log' = Append(log, "unexpected_ip")
        /\ loopPc' = "check"
        /\ UNCHANGED << running, sockOpen, unity_address, mainPc, tasks >>
    /\ UNCHANGED testVars

\* The datagram parses: a handler thread is started on the parsed value.
ReceiveDispatch ==
    \E d \in Datagrams :
        /\ Received(d)
        /\ IsExpected(d.address)
        /\ JsonLoads(d.data).ok
        /\ unity_address' = Learn(unity_address, d.address)
        /\ log' = log \o Connected(unity_address) \o << "received" >>
        /\ tasks' = ThreadStart(tasks, JsonLoads(d.data))
        /\ loopPc' = "check"
        /\ UNCHANGED << running, sockOpen, mainPc >>
    /\ UNCHANGED testVars

\* decode or json.loads raises: except json.JSONDecodeError / except Exception
\* (which prints only while self.running)
ReceiveDecodeError ==
    \E d \in Datagrams :
        /\ Received(d)
        /\ IsExpected(d.address)
        /\ ~JsonLoads(d.data).ok
        /\ unity_address' = Learn(unity_address, d.address)
        /\ log' = log \o Connected(unity_address) \o
                      (IF JsonLoads(d.data).error = "JSONDecodeError"
                           THEN << "json_decode_error" >>
                       ELSE IF running THEN << "error" >> ELSE << >>)
        /\ loopPc' = AfterExcept
        /\ UNCHANGED << running, sockOpen, mainPc, tasks >>
    /\ UNCHANGED testVars

(***************************************************************************)
(* start / stop: the main thread.                                          *)
(***************************************************************************)
\* KeyboardInterrupt in start(); stop(): self.running = False
StopFlag ==
    /\ mainPc = "serving"
    /\ running' = FALSE
    /\ mainPc' = "closing"
    /\ UNCHANGED << sockOpen, unity_address, loopPc, last, nrecv, log, tasks >>
    /\ UNCHANGED testVars

\* stop() that clears the flag and leaves the socket open.
StopCloseLeavesSocket ==
    /\ mainPc = "closing"
    /\ mainPc' = "stopped"
    /\ UNCHANGED << running, sockOpen, unity_address, loopPc, last, nrecv, log,
                    tasks >>
    /\ UNCHANGED testVars

\* stop(): self.sock.close()
StopClose ==
    /\ mainPc = "closing"
    /\ sockOpen' = FALSE
    /\ mainPc' = "stopped"
    /\ UNCHANGED << running, unity_address, loopPc, last, nrecv, log, tasks >>
    /\ UNCHANGED testVars

\* stop() and start() return, main() returns: the process ends and takes
\* its daemon threads with it.
Exit ==
    /\ mainPc = "stopped"
    /\ mainPc' = "exited"
    /\ UNCHANGED << running, sockOpen, unity_address, loopPc, last, nrecv, log,
                    tasks >>
    /\ UNCHANGED testVars

Next ==
    \/ ListenStart
    \/ LoopCheck
    \/ RecvTimeout
    \/ RecvError
    \/ ReceiveUnexpected
    \/ ReceiveDispatch
    \/ ReceiveDecodeError
    \/ \E i \in DOMAIN tasks : HandlerSend(i)
    \/ \E i \in DOMAIN tasks : HandlerCrash(i)
    \/ StopFlag
    \/ StopClose
    \/ Exit

Spec == Init /\ [][Next]_vars

\* The steps of the listener thread.
Listener ==
    \/ ListenStart
    \/ LoopCheck
    \/ RecvTimeout
    \/ RecvError
    \/ ReceiveUnexpected
    \/ ReceiveDispatch
    \/ ReceiveDecodeError

\* The listener thread keeps being scheduled (recvfrom returns within its
\* 0.1 s timeout), and the main thread, once interrupted, goes through
\* stop() and returns from start() and main().
FairSpec ==
    /\ Spec
    /\ WF_vars(Listener)
    /\ WF_vars(StopClose)
    /\ WF_vars(Exit)

(***************************************************************************)
(* g1_comprehensive_test.py                                                *)
(***************************************************************************)
\* The GetVolume calls of the 10 s loop of test_communication_loop.
CommLoopCalls == 2

\* sys.argv without and with the network interface.
Argvs ==
    { << "g1_comprehensive_test.py" >>,
      << "g1_comprehensive_test.py", "eth0" >> }

\* A device call and a result line of a test method.
Call(test, op) == [test |-> test, kind |-> "call", op |-> op]
Line(test, text) == [test |-> test, kind |-> "print", op |-> text]

test_audio_system ==
    << Call("audio", "GetVolume"), Call("audio", "SetVolume"),
       Call("audio", "GetVolume"), Call("audio", "TtsMaker"),
       Line("audio", "passed") >>

test_led_system ==
    << Call("led", "TtsMaker") >>
        \o [k \in 1..7 |-> Call("led", "LedControl")]
        \o << Call("led", "LedControl"), Line("led", "passed") >>

test_gestures ==
    << Call("gestures", "TtsMaker"), Call("gestures", "WaveHand"),
       Call("gestures", "TtsMaker"), Call("gestures", "ShakeHand"),
       Line("gestures", "passed") >>

test_movement_modes == << Line("movement", "skipped") >>

test_balance_stand ==
    << Call("balance", "TtsMaker"), Call("balance", "Move"),
       Call("balance", "Move"), Call("balance", "StopMove"),
       Line("balance", "passed") >>

test_communication_loop ==
    << Call("communication", "TTtsMaker") >>
        \o [k \in 1..CommLoopCalls |-> Call("communication", "GetVolume")]
        \o << Line("communication", "passed") >>

\* The try block of run_all_tests, the sleeps left out.
TryBody ==
    test_audio_system \o test_led_system \o test_gestures
        \o test_movement_modes \o test_balance_stand
        \o test_communication_loop
        \o << Line("all", "completed"), Call("all", "TtsMaker"),
              Call("cleanup", "Damp"), Call("cleanup", "LedControl"),
              Call("cleanup", "LedControl") >>

\* The except block of run_all_tests before its raise.
ExceptBody ==
    << Call("failure", "TtsMaker"), Call("failure", "LedControl") >>

\* What a device call can do: return, with a status code for GetVolume, or
\* raise; AudioClient has no attribute TTtsMaker.
Outcomes(e) ==
    IF e.op = "TTtsMaker" THEN { "AttributeError" }
    ELSE IF e.op = "GetVolume" THEN { "code 0", "code nonzero", "raised" }
    ELSE { "returned", "raised" }

Raises(o) == o \in { "raised", "AttributeError" }

\* The script is run as a program (main) or run_all_tests is called on a
\* constructed G1ConnectionTest.
TestInit ==
    /\ BridgeInit
    /\ tPc \in { "main", "try" }
    /\ tIdx = 1
    /\ tLog = << >>

\* main(): the test of len(sys.argv)
MainArgs ==
    /\ tPc = "main"
    /\ \E argv \in Argvs :
           tPc' = IF Len(argv) < 2 THEN "usage_exit" ELSE "init"
    /\ UNCHANGED << tIdx, tLog >>
    /\ UNCHANGED bridgeVars

\* tester = G1ConnectionTest(network_interface)
Construct ==
    /\ tPc = "init"
    /\ \E o \in { "returned", "raised" } :
           tPc' = IF Raises(o) THEN "raised" ELSE "constructed"
    /\ UNCHANGED << tIdx, tLog >>
    /\ UNCHANGED bridgeVars

\* tester.run_all_tests: the attribute is looked up and not called; main()
\* returns.
MainLastLine ==
    /\ tPc = "constructed"
    /\ tPc' = "main_returned"
    /\ UNCHANGED << tIdx, tLog >>
    /\ UNCHANGED bridgeVars

\* One entry of the try block; the block returns after its last entry.
TryStep ==
    /\ tPc = "try"
    /\ tIdx \in DOMAIN TryBody
    /\ LET e == TryBody[tIdx] IN
       \E o \in (IF e.kind = "print" THEN { "printed" } ELSE Outcomes(e)) :
           /\ tLog' = Append(tLog, [test |-> e.test, op |-> e.op, out |-> o])
           /\ IF Raises(o)
              THEN tPc' = "except" /\ tIdx' = 1
              ELSE /\ tIdx' = tIdx + 1
                   /\ tPc' = IF tIdx = Len(TryBody) THEN "run_returned"
                              ELSE "try"
    /\ UNCHANGED bridgeVars

\* One call of the except block; after the last one, raise.
ExceptStep ==
    /\ tPc = "except"
    /\ tIdx \in DOMAIN ExceptBody
    /\ LET e == ExceptBody[tIdx] IN
       \E o \in Outcomes(e) :
           /\ tLog' = Append(tLog, [test |-> e.test, op |-> e.op, out |-> o])
           /\ tIdx' = tIdx + 1
           /\ tPc' = IF Raises(o) \/ tIdx = Len(ExceptBody) THEN "raised"
                      ELSE "except"
    /\ UNCHANGED bridgeVars

TestNext ==
    \/ MainArgs
    \/ Construct
    \/ MainLastLine
    \/ TryStep
    \/ ExceptStep

TestSpec == TestInit /\ [][TestNext]_vars

(***************************************************************************)
(* Vocabulary of the properties.                                           *)
(***************************************************************************)
KnownCommands == {"ping", "test_echo", "get_status", "shake_hand"}

\* Handler i was started on a JSON object.
IsObject(i) == tasks[i].cmd.type = "dict"

\* The request of handler i has a command field / a data field.
HasCommand(i) == IsObject(i) /\ "command" \in DOMAIN tasks[i].cmd.val
HasData(i) == IsObject(i) /\ "data" \in DOMAIN tasks[i].cmd.val

\* Handler i serves a request whose command field is c.
Serves(i, c) == HasCommand(i) /\ tasks[i].cmd.val["command"] = c

\* A response as the peer reads it off the network.
Reply(o) == JsonLoads(o.data).val

\* The statuses of the responses handler i has emitted, in order.
Statuses(i) == [k \in 1..Len(tasks[i].out) |-> Reply(tasks[i].out[k])["status"]]

Finished(i) == tasks[i].pc = "done"

\* s contains t.
Contains(s, t) ==
    \E k \in 1..(Len(s) + 1) :
        k + Len(t) - 1 <= Len(s) /\ SubSeq(s, k, k + Len(t) - 1) = t

\* The text is a JSON document.
ValidJson(text) ==
    /\ text.utf8
    /\ \/ text.open = "{" /\ text.close = "}"
       \/ text.open = "[" /\ text.close = "]"

\* This step is an iteration of listen() in which recvfrom returned a
\* datagram; last' is that datagram.
ReceiveStep == nrecv' = nrecv + 1

\* Handler i has made exactly one send when it is finished, has emitted at
\* most that one response, and a send of it fails only on the closed socket.
OneSend(i) ==
    /\ Len(tasks[i].out) <= 1
    /\ Finished(i) => Len(tasks[i].out) + tasks[i].failed = 1
    /\ tasks[i].failed > 0 => ~sockOpen

ShakePhases == << "acknowledged", "in_progress", "completed" >>

(***************************************************************************)
(* C1                                                                      *)
(***************************************************************************)
\* C1: a shake_hand handler none of whose sends has failed has emitted, at
\* every moment and whatever the other handlers do, a prefix of
\* acknowledged, in_progress, completed, each response with command
\* shake_hand, and all three once it is finished.
C1_ShakeHandPhases ==
    \A i \in DOMAIN tasks :
        (Serves(i, "shake_hand") /\ tasks[i].failed = 0) =>
            /\ Len(tasks[i].out) <= 3
            /\ Statuses(i) = SubSeq(ShakePhases, 1, Len(tasks[i].out))
            /\ \A k \in DOMAIN tasks[i].out :
                   Reply(tasks[i].out[k])["command"] = "shake_hand"
            /\ Finished(i) => Len(tasks[i].out) = 3

\* Two shake_hand handlers run together; the second has emitted all three
\* responses while the first is still between its first and second.
C1_Witness ==
    /\ Len(tasks) = 2
    /\ Serves(1, "shake_hand") /\ Serves(2, "shake_hand")
    /\ tasks[1].pc = "extending" /\ Statuses(1) = << "acknowledged" >>
    /\ Finished(2) /\ Statuses(2) = ShakePhases

(***************************************************************************)
(* C2                                                                      *)
(***************************************************************************)
\* C2: an iteration of listen() that receives a datagram from a host other
\* than pc_ip starts no handler, emits nothing and leaves unity_address as it
\* was; and unity_address, once set, names the host pc_ip.
C2_OtherHostIgnored ==
    /\ [](unity_address # None => unity_address[1] = pc_ip)
    /\ [][ (ReceiveStep /\ last'.address[1] # pc_ip) =>
               (tasks' = tasks /\ unity_address' = unity_address) ]_vars

\* A datagram from the other host has just been received while the peer is
\* connected and a handler has answered.
C2_Witness ==
    /\ loopPc = "check" /\ last # None
    /\ last.address[1] = other_ip
    /\ unity_address # None
    /\ Len(tasks) = 1 /\ tasks[1].out # << >>

(***************************************************************************)
(* C3                                                                      *)
(***************************************************************************)
\* C3 as stated: after every datagram accepted from pc_ip, unity_address is
\* the source endpoint of that datagram.
C3_OverwriteOnEveryReceipt ==
    [][ (ReceiveStep /\ last'.address[1] = pc_ip) =>
            unity_address' = last'.address ]_vars

\* C3 as amended: the first datagram accepted from pc_ip sets unity_address
\* to its source endpoint, and unity_address never changes once it is set.
C3_FirstSenderWins ==
    [][ /\ (ReceiveStep /\ last'.address[1] = pc_ip /\ unity_address = None) =>
               unity_address' = last'.address
        /\ unity_address # None => unity_address' = unity_address ]_vars

\* The peer has re-contacted from another port and unity_address still holds
\* the first port.
C3_Witness ==
    /\ loopPc = "check" /\ last # None
    /\ last.address = << pc_ip, 50002 >>
    /\ unity_address = << pc_ip, 50001 >>

(***************************************************************************)
(* C4                                                                      *)
(***************************************************************************)
\* C4: an iteration of listen() that receives from pc_ip a payload that is
\* not a JSON document starts no handler, emits nothing and goes on to the
\* next test of the loop condition; the loop ends only with running false.
C4_MalformedDropped ==
    /\ [](loopPc = "done" => ~running)
    /\ [][ (ReceiveStep /\ last'.address[1] = pc_ip /\ ~ValidJson(last'.data)) =>
               (tasks' = tasks /\ loopPc' = "check" /\ running' = running) ]_vars

\* A malformed datagram from the peer was dropped and the next, valid one
\* was received, dispatched and answered.
C4_Witness ==
    /\ log = << "connected", "json_decode_error", "received" >>
    /\ Len(tasks) = 1 /\ Finished(1) /\ Len(tasks[1].out) = 1

(***************************************************************************)
(* C5                                                                      *)
(***************************************************************************)
\* C5 as stated: no response is sent for a JSON object that has no command
\* field.
C5_MissingCommandDropped ==
    \A i \in DOMAIN tasks :
        (IsObject(i) /\ ~HasCommand(i)) => tasks[i].out = << >>

\* C5 as amended: a JSON object without a command field is dispatched as the
\* command "unknown": its handler makes one send, of the error response with
\* command "unknown" and message "Unknown command: unknown".
C5_MissingCommandIsUnknown ==
    \A i \in DOMAIN tasks :
        (IsObject(i) /\ ~HasCommand(i)) =>
            /\ OneSend(i)
            /\ \A k \in DOMAIN tasks[i].out :
                   Reply(tasks[i].out[k]) =
                       [ status |-> "error", command |-> "unknown",
                         message |-> "Unknown command: unknown" ]

\* The handler of an object without command has finished and has emitted
\* its response.
C5_Witness ==
    \E i \in DOMAIN tasks :
        IsObject(i) /\ ~HasCommand(i) /\ Finished(i) /\ Len(tasks[i].out) = 1

(***************************************************************************)
(* C6                                                                      *)
(***************************************************************************)
\* C6 as stated: a finished handler of a command outside the four known ones
\* has emitted exactly one response.
C6_ExactlyOneError ==
    \A i \in DOMAIN tasks :
        (HasCommand(i) /\ tasks[i].cmd.val["command"] \notin KnownCommands
            /\ Finished(i)) => Len(tasks[i].out) = 1

\* C6 as amended: the handler of a command outside the four known ones makes
\* one send; what it emits is an error response whose command field is the
\* command string and whose message contains it; the response is missing
\* only when the send failed on the socket stop() closed.
C6_UnknownCommandError ==
    \A i \in DOMAIN tasks :
        (HasCommand(i) /\ tasks[i].cmd.val["command"] \notin KnownCommands) =>
            /\ OneSend(i)
            /\ \A k \in DOMAIN tasks[i].out :
                   LET r == Reply(tasks[i].out[k]) IN
                   /\ r["status"] = "error"
                   /\ r["command"] = tasks[i].cmd.val["command"]
                   /\ Contains(r["message"], tasks[i].cmd.val["command"])

\* "dance" and "Ping" (which differs from ping in case only) have both been
\* answered with their error response.
C6_Witness ==
    /\ Len(tasks) = 2
    /\ Serves(1, "dance") /\ Finished(1) /\ Len(tasks[1].out) = 1
    /\ Serves(2, "Ping") /\ Finished(2) /\ Len(tasks[2].out) = 1

(***************************************************************************)
(* C7                                                                      *)
(***************************************************************************)
\* C7 as stated: a finished ping handler has emitted exactly one response.
C7_ExactlyOnePong ==
    \A i \in DOMAIN tasks :
        (Serves(i, "ping") /\ Finished(i)) => Len(tasks[i].out) = 1

\* C7 as amended: a ping handler makes one send; what it emits is a response
\* with status success and command ping; the response is missing only when
\* the send failed on the socket stop() closed.  Two pings in a row have two
\* handlers, each with its own response.
C7_OnePongPerPing ==
    \A i \in DOMAIN tasks :
        Serves(i, "ping") =>
            /\ OneSend(i)
            /\ \A k \in DOMAIN tasks[i].out :
                   /\ Reply(tasks[i].out[k])["status"] = "success"
                   /\ Reply(tasks[i].out[k])["command"] = "ping"

\* Two pings were received one after the other and both were answered.
C7_Witness ==
    /\ Len(tasks) = 2
    /\ Serves(1, "ping") /\ Finished(1) /\ Len(tasks[1].out) = 1
    /\ Serves(2, "ping") /\ Finished(2) /\ Len(tasks[2].out) = 1

(***************************************************************************)
(* C8                                                                      *)
(***************************************************************************)
\* The data field of the request of handler i, "" when it has none.
RequestData(i) == IF HasData(i) THEN tasks[i].cmd.val["data"] ELSE ""

\* C8: a test_echo handler emits at most one response; it is a success
\* response whose echo_data is the request's data field, or "" when the
\* request has none, and no other field of the request shows in it.
C8_EchoRoundTrip ==
    \A i \in DOMAIN tasks :
        Serves(i, "test_echo") =>
            /\ Len(tasks[i].out) <= 1
            /\ \A k \in DOMAIN tasks[i].out :
                   Reply(tasks[i].out[k]) =
                       [ status |-> "success", command |-> "test_echo",
                         echo_data |-> RequestData(i),
                         message |-> "Echoed from robot controller: "
                                         \o RequestData(i) ]

\* One test_echo with data and one without data but with another field have
\* both been answered.
C8_Witness ==
    /\ Len(tasks) = 2
    /\ Serves(1, "test_echo") /\ HasData(1)
    /\ Len(tasks[1].out) = 1 /\ Reply(tasks[1].out[1])["echo_data"] = "x"
    /\ Serves(2, "test_echo") /\ ~HasData(2)
    /\ "extra" \in DOMAIN tasks[2].cmd.val
    /\ Len(tasks[2].out) = 1 /\ Reply(tasks[2].out[1])["echo_data"] = ""

(***************************************************************************)
(* C9                                                                      *)
(***************************************************************************)
\* C9: an iteration of listen() that receives a JSON document from pc_ip
\* starts exactly one handler, which has not run yet when the loop is back at
\* its condition, and touches no handler started before, wherever those are.
C9_DispatchDoesNotWait ==
    [][ (ReceiveStep /\ last'.address[1] = pc_ip /\ ValidJson(last'.data)) =>
            /\ Len(tasks') = Len(tasks) + 1
            /\ SubSeq(tasks', 1, Len(tasks)) = tasks
            /\ tasks'[Len(tasks')].pc = "run"
            /\ tasks'[Len(tasks')].out = << >>
            /\ loopPc' = "check" ]_vars

\* A shake_hand handler is between its acknowledged and its completed
\* response; a ping received after it has been answered.
C9_Witness ==
    /\ Len(tasks) = 2
    /\ Serves(1, "shake_hand") /\ tasks[1].pc \in {"extending", "awaiting"}
    /\ Len(tasks[1].out) >= 1
    /\ Serves(2, "ping") /\ Finished(2) /\ Len(tasks[2].out) = 1

(***************************************************************************)
(* C10                                                                     *)
(***************************************************************************)
\* C10: a handler that has ended, none of whose sends failed, has emitted at
\* least one response.
C10_EveryRequestAnswered ==
    \A i \in DOMAIN tasks :
        (tasks[i].pc \in {"done", "crashed"} /\ tasks[i].failed = 0) =>
            tasks[i].out # << >>

(***************************************************************************)
(* C11                                                                     *)
(***************************************************************************)
\* The datagram is a get_status request the peer's host has sent.
IsStatusRequest(d) ==
    /\ IsExpected(d.address)
    /\ JsonLoads(d.data).ok /\ JsonLoads(d.data).type = "dict"
    /\ CmdType(JsonLoads(d.data).val) = "get_status"

\* C11 as stated: when the only datagram received so far is a get_status
\* request of the peer's host and its handler has finished, exactly one
\* response has been emitted.
C11_FirstStatusAnsweredOnce ==
    (nrecv = 1 /\ Len(tasks) = 1 /\ Serves(1, "get_status") /\ Finished(1)) =>
        Len(tasks[1].out) = 1

\* C11 as amended: a get_status request received from the peer's host while
\* unity_address is unset sets unity_address to its source endpoint and
\* starts its handler; unity_address stays that endpoint; a get_status
\* handler makes one send, and what it emits is a success response naming
\* get_status, addressed to unity_address; the response is missing only when
\* the send failed on the socket stop() closed.
C11_FirstStatusAnswered ==
    /\ [][ /\ (ReceiveStep /\ unity_address = None /\ IsStatusRequest(last')) =>
                 /\ unity_address' = last'.address
                 /\ Len(tasks') = 1 /\ Serves(1, "get_status")'
           /\ unity_address # None => unity_address' = unity_address ]_vars
    /\ [](\A i \in DOMAIN tasks :
             Serves(i, "get_status") =>
                 /\ OneSend(i)
                 /\ \A k \in DOMAIN tasks[i].out :
                        /\ tasks[i].out[k].to = unity_address
                        /\ Reply(tasks[i].out[k])["status"] = "success"
                        /\ Reply(tasks[i].out[k])["command"] = "get_status")

\* The first datagram of the run, a get_status request from port 50002, has
\* been answered once, to that port.
C11_Witness ==
    /\ nrecv = 1 /\ loopPc = "check" /\ last # None
    /\ last.address = << pc_ip, 50002 >>
    /\ Len(tasks) = 1 /\ Serves(1, "get_status") /\ Finished(1)
    /\ Len(tasks[1].out) = 1 /\ tasks[1].out[1].to = last.address

(***************************************************************************)
(* C12                                                                     *)
(***************************************************************************)
\* How many times listen() has printed "Unity connected".
RECURSIVE Count(_, _)
Count(s, e) ==
    IF s = << >> THEN 0
    ELSE (IF Head(s) = e THEN 1 ELSE 0) + Count(Tail(s), e)

\* C12: "Unity connected" is printed at most once in a run; it has been
\* printed exactly when unity_address is set; and it comes before every
\* other line printed for a datagram of the peer's host.
C12_ConnectedOnce ==
    /\ Count(log, "connected") <= 1
    /\ Count(log, "connected") = 1 <=> unity_address # None
    /\ \A k \in DOMAIN log :
           log[k] \in {"received", "json_decode_error", "error"} =>
               \E j \in 1..(k - 1) : log[j] = "connected"

\* Two datagrams of the peer's host have been dispatched, the second from
\* another port than the first, and "Unity connected" was printed once.
C12_Witness ==
    /\ log = << "connected", "received", "received" >>
    /\ loopPc = "check" /\ last # None
    /\ last.address = << pc_ip, 50002 >>
    /\ unity_address = << pc_ip, 50001 >>

Unrecognized(ts, i) ==
    ts[i].cmd.type = "dict" /\ CmdType(ts[i].cmd.val) \notin KnownCommands

\* The responses handler i has emitted, none when it is not started yet.
Emitted(ts, i) == IF i \in DOMAIN ts THEN Len(ts[i].out) ELSE 0

\* C14 as stated: when listen() receives a datagram, every handler of an
\* unrecognized command started before has made its send.
C14_ErrorBeforeNextReceive ==
    [][ ReceiveStep =>
            \A i \in DOMAIN tasks : Unrecognized(tasks, i) => Finished(i) ]_vars

\* C14 as amended: the iteration of listen() that dispatches an unrecognized
\* command starts a handler thread and emits nothing; the error response is
\* emitted by a later step of that thread, which is no step of listen(), so
\* the loop can receive further datagrams before the response is sent.
C14_ErrorSentByHandlerThread ==
    [][ /\ (ReceiveStep /\ Len(tasks') > Len(tasks)
                /\ Unrecognized(tasks', Len(tasks'))) =>
                 /\ tasks'[Len(tasks')].pc = "run"
                 /\ \A i \in DOMAIN tasks' :
                        Emitted(tasks', i) = Emitted(tasks, i)
        /\ \A i \in DOMAIN tasks' :
               (Unrecognized(tasks', i) /\ Emitted(tasks', i) > Emitted(tasks, i)) =>
                   (nrecv' = nrecv /\ loopPc' = loopPc) ]_vars

\* The handler of "dance" has not sent its error response yet, and a ping
\* received after "dance" has already been answered.
C14_Witness ==
    /\ Len(tasks) = 2
    /\ Serves(1, "dance") /\ tasks[1].pc = "run" /\ tasks[1].out = << >>
    /\ Serves(2, "ping") /\ Finished(2) /\ Len(tasks[2].out) = 1

(***************************************************************************)
(* C15                                                                     *)
(***************************************************************************)
\* The sends process_command has attempted when shake_hand is at pc.
Attempts(pc) ==
    IF pc = "run" THEN 0
    ELSE IF pc = "extending" THEN 1
    ELSE IF pc = "awaiting" THEN 2
    ELSE 3

C16_OneEndpointPerHandler ==
    /\ [][ /\ Len(tasks') > Len(tasks) => unity_address' # None
           /\ tasks # << >> => unity_address' = unity_address ]_vars
    /\ [](\A i \in DOMAIN tasks :
             \A k \in DOMAIN tasks[i].out :
                 tasks[i].out[k].to = unity_address)

\* The three responses of a shake_hand started from port 50001 have gone to
\* port 50001, and a datagram from port 50002 was dispatched meanwhile.
C16_Witness ==
    /\ Len(tasks) = 2 /\ nrecv = 2
    /\ Serves(1, "shake_hand") /\ Finished(1)
    /\ Len(tasks[1].out) = 3
    /\ \A k \in 1..3 : tasks[1].out[k].to = << pc_ip, 50001 >>
    /\ loopPc = "check" /\ last # None /\ last.address = << pc_ip, 50002 >>

(***************************************************************************)
(* C17                                                                     *)
(***************************************************************************)
\* C17: a step that changes unity_address is an iteration of listen() that
\* received a datagram, and it changes no handler already started; a step
\* that changes a handler, whatever its command and phase and whether its
\* send went through or failed, leaves unity_address as it was.  (pc_ip is
\* assigned in __init__ only.)
C17_OnlyListenWritesEndpoint ==
    [][ /\ unity_address' # unity_address =>
               /\ ReceiveStep /\ loopPc = "recv"
               /\ SubSeq(tasks', 1, Len(tasks)) = tasks
        /\ (\E i \in DOMAIN tasks : tasks'[i] # tasks[i]) =>
               unity_address' = unity_address ]_vars

\* A shake_hand handler has had one send go through and one fail, and
\* unity_address is still the endpoint listen() learned.
C17_Witness ==
    /\ Len(tasks) = 1 /\ Serves(1, "shake_hand")
    /\ tasks[1].pc = "awaiting"
    /\ Len(tasks[1].out) = 1 /\ tasks[1].failed = 1
    /\ unity_address = << pc_ip, 50002 >>

(***************************************************************************)
(* C19                                                                     *)
(***************************************************************************)
\* C19: whenever a handler has been started unity_address is set, and a
\* send of a handler fails only on the closed socket, never for want of an
\* address.
C19_HandlerHasEndpoint ==
    \A i \in DOMAIN tasks :
        /\ unity_address # None
        /\ tasks[i].failed > 0 => ~sockOpen

\* unity_address was learned from a datagram that could not be decoded; the
\* handler of the next datagram is about to make its send.
C19_Witness ==
    /\ log = << "connected", "json_decode_error", "received" >>
    /\ Len(tasks) = 1 /\ tasks[1].pc = "run"
    /\ unity_address # None /\ sockOpen

(***************************************************************************)
(* C20                                                                     *)
(***************************************************************************)
\* C20 as stated, the part on handlers in flight: no handler is left short
\* of its end when the process has ended.
C20_HandlersRunToEnd ==
    \A i \in DOMAIN tasks : mainPc = "exited" => ~Running(i)

\* C20 as amended: once the socket is closed no response is emitted; stop()
\* and the end of the process change nothing of a handler; a step a handler
\* takes after the close is a send that fails, is counted and moves the
\* handler on to its next control point; and handlers take steps only while
\* the process lives.
C20_NoEmissionAfterClose ==
    [][ /\ ~sockOpen =>
               \A i \in DOMAIN tasks : tasks'[i].out = tasks[i].out
        /\ mainPc' # mainPc => tasks' = tasks
        /\ \A i \in DOMAIN tasks :
               (~sockOpen /\ IsObject(i) /\ tasks'[i] # tasks[i]) =>
                   /\ tasks'[i].failed = tasks[i].failed + 1
                   /\ tasks'[i].pc =
                          NextPc(CmdType(tasks[i].cmd.val), tasks[i].pc)
                   /\ mainPc # "exited" ]_vars

\* stop() closed the socket before the last send of a shake_hand: the
\* handler has reached its end with that send dropped.
C20_Witness ==
    /\ mainPc = "stopped" /\ ~sockOpen
    /\ Len(tasks) = 1 /\ Serves(1, "shake_hand") /\ Finished(1)
    /\ Statuses(1) = << "acknowledged", "in_progress" >>
    /\ tasks[1].failed = 1

(***************************************************************************)
(* C18                                                                     *)
(***************************************************************************)
\* The tests whose result line has been printed, in order.
Reported ==
    LET lines == SelectSeq(tLog, LAMBDA r : r.op \in {"passed", "skipped"})
    IN  [k \in DOMAIN lines |-> lines[k].test]

AllTests ==
    << "audio", "led", "gestures", "movement", "balance", "communication" >>

\* C18: when main(), run with a network interface, has returned, the six
\* tests have been executed in order and "all tests completed" was reached.
C18_MainRunsAllTests ==
    tPc = "main_returned" =>
        /\ Reported = AllTests
        /\ \E k \in DOMAIN tLog : tLog[k].op = "completed"

=============================================================================
